---- MODULE Spec2Model ----
(***************************************************************************)
(* Model of soundscope's playback-synchronised analysis pipeline.          *)
(*                                                                         *)
(* Three threads of control are modelled:                                  *)
(*   - the player loop          (AudioPlayer::run, audio_player.rs)        *)
(*   - the audio output callback, which pulls the sink's source sample by  *)
(*     sample (Iterator for AudioFile) and applies seek orders             *)
(*     (Source::try_seek for AudioFile)                                    *)
(*   - the render loop          (App::run, tui.rs)                         *)
(* and the four crossbeam channels built in main().                        *)
(*                                                                         *)
(* Time (std::time::Duration) is counted in ticks, TicksPerSecond ticks to *)
(* the second; every sample period of a catalogued file is a whole number  *)
(* of ticks.  usize is modelled with UsizeBits bits.                       *)
(***************************************************************************)
EXTENDS Integers, Sequences, FiniteSets, TLC

\* ---------------------------------------------------------------- bounds
MaxKeys == 3            \* key events fed to the render loop in one run
MaxPosQueue == 2        \* position messages in flight (the channel is unbounded)
MaxPull == 8191         \* samples pulled by one audio callback
LongFrames == 19000     \* frames of the catalogued stereo file longer than 16384 frames
MonoLen == 9000         \* samples of the catalogued mono file (its duration is below 5 s)
TriFrames == 3000       \* frames of the catalogued 3-channel file (its duration is below 5 s)
MaxMeterErrs == 1       \* loudness queries that fail in one run of FaultSpec
MaxMicTicks == 2        \* Microphone-mode ticks recorded in the loudness history
BlipFrames == 500       \* frames of the stereo file shorter than 1 s
RingCap == 3            \* capacity of the capture ring buffer (30 * sample rate)
MaxCallbacks == 3       \* capture callbacks in one run of CaptureSpec
MaxFrames == 2          \* frames in the block handed to one capture callback

\* --------------------------------------------------- program constants
BlockSize == 4096       \* AudioFile::next reports every BlockSize-th cursor
FftLookback == 16384    \* lookback of the FFT and loudness windows
UsizeBits == 16         \* width of usize in the model (64 in the program)
SeekStepSecs == 5       \* Duration::from_secs(5) of MoveLeft / MoveRight
TicksPerSecond == 6 * 1000
ChannelCap == 1         \* bounded(1) command, file-ready and error channels
LufsLen == 300          \* App.lufs: [f64; 300]
LufsFloor == 0 - 50     \* the value the loudness history is filled with
FailValue == 0          \* written at the tail when the short-term query fails
DefaultRate == 44100    \* AudioFile::new and Analyzer::default
DefaultWindow == 15 * 1000  \* UI::default: waveform_window: 15. (in ms)
MaxWindow == 15 * 1000      \* the 15. of receive_audio_file and of the zoom keys
MinWindow == 1 * 1000       \* the 1. of the zoom keys
ZoomStep == 1 * 1000        \* one key changes the window by 1.

UsizeMod == 2 ^ UsizeBits

Min(a, b) == IF a < b THEN a ELSE b
Max(a, b) == IF a > b THEN a ELSE b
SatSub(a, b) == IF a > b THEN a - b ELSE 0

\* ------------------------------------------------------------ the files
\* "new" is the placeholder built by AudioFile::new; the others are files
\* on disk.  "bad" does not decode.
Paths == {"long", "mono", "tri", "bad"}

\* A directory with a stereo file of half a second, "blip".
ZoomPaths == {"long", "mono", "blip"}

DecodeOk(path) == path # "bad"

Channels(f) ==
    CASE f = "new"   -> 26
      [] f = "long"  -> 2
      [] f = "mono"  -> 1
      [] f = "tri"   -> 3
      [] OTHER       -> 2

SampleRate(f) == IF f = "new" THEN DefaultRate ELSE 1000

SamplesLen(f) ==
    CASE f = "new"   -> 0
      [] f = "long"  -> 2 * LongFrames
      [] f = "mono"  -> MonoLen
      [] f = "tri"   -> 3 * TriFrames
      [] f = "blip"  -> 2 * BlipFrames
      [] OTHER       -> 0

\* get_mid_and_side_samples: left = even indices, right = odd indices,
\* zipped, whatever the channel count.
MidLen(f) == SamplesLen(f) \div 2

\* AudioFile::from_file: duration = from_millis(mid.len() / rate * 1000);
\* AudioFile::new: 15 s.
DurationMillis(f) ==
    IF f = "new" THEN 15 * 1000 ELSE (MidLen(f) * 1000) \div SampleRate(f)

DurationTicks(f) == (DurationMillis(f) * TicksPerSecond) \div 1000

SeekStep == SeekStepSecs * TicksPerSecond

VARIABLES
    debug,          \* build with overflow checks / debug_assertions
    \* player thread
    ppc,            \* "poll" | "attach" | "send_err" | "sleep" | "done" | "panicked"
    pendingErr,     \* the message a blocked error_tx.send is holding
    pfile,          \* AudioPlayer.audio_file (which file)
    ppos,           \* AudioPlayer.audio_file.playback_position
    \* sink and its source (the clone handed to Sink::append)
    sound_count,    \* sources in the sink (0 or 1)
    srcFile,        \* the file of the sink's source
    cursor,         \* playback_position of the sink's source
    paused,         \* Sink::is_paused
    trackOff,       \* TrackPosition: offset set by the last seek (ticks)
    trackCnt,       \* TrackPosition: samples counted since then
    audioPanicked,  \* the audio callback thread has panicked
    \* channels
    cmdQ, posQ, fileQ, errQ,
    \* render thread
    rpc,            \* "startup" | "loop" | "draw" | "recv_file" | "done" | "oob_panic" |
                    \* "panicked" | "failed"
    raf,            \* App.audio_file
    is_file_selected,
    is_playing_audio,
    mode,           \* "Player" | "Microphone"
    playhead,       \* App.waveform.playhead
    show_explorer,
    error_text,
    error_timer,    \* -1: None; else, for Some(instant), the ms elapsed since instant
    midWin, sideWin, lufsWin,   \* last slices taken by analyze_audio_file_samples
    lufs,           \* App.lufs, the short-term loudness history
    meterCfg,       \* file_analyzer's meter: <<channels, rate>>
    fedHi,          \* end of the last span fed to that meter since its last reset (0: none)
    faultsLeft,     \* loudness queries that will still fail (0 with the meter modes in use)
    \* history
    keys,           \* key events so far
    pullSent,       \* last position sent by next() since the cursor was last set, or -1
    preSeek,        \* leading messages of posQ sent before the latest keyed seek took effect
    \* capture stream and ring buffer
    capChannels,    \* cfg.channels of the input device
    capBuf,         \* latest_captured_samples, oldest first
    capLock,        \* holder of its mutex: "free" | "callback" | "render"
    cbPc,           \* capture callback: "idle" | "extend"
    cbCount,        \* callbacks started so far
    cbData,         \* data: the block handed to the running callback
    cbOut,          \* what is left of the iterator handed to extend
    cbBase,         \* samples enqueued before the running callback
    capHist,        \* every sample enqueued so far, in order
    micPc,          \* analyze_microphone_input: "idle" | "copy1" | "analyze1" | "copy2" | "lufs"
    snap,           \* samples: the last copy of the ring buffer
    \* input device
    audio_capture_stream,   \* None: "none"; Some(stream): "running" | "paused"
    show_devices_list,
    bufCap,         \* capacity of latest_captured_samples, in samples
    devRate,        \* device_analyzer.sample_rate()
    \* zoom
    waveform_window,    \* UI.waveform_window, in ms
    \* calls of the pure functions of the render side
    callee,         \* the function last called ("none" before the first call)
    callArgs,       \* its arguments
    callRet         \* what it returned

playerVars == <<ppc, pendingErr, pfile, ppos>>
sinkVars == <<sound_count, srcFile, cursor, paused, trackOff, trackCnt, audioPanicked>>
chanVars == <<cmdQ, posQ, fileQ, errQ>>
renderVars == <<rpc, raf, is_file_selected, is_playing_audio, mode, playhead,
                show_explorer, error_text, error_timer, midWin, sideWin, lufsWin>>
loudVars == <<lufs, meterCfg, fedHi, faultsLeft>>
histVars == <<keys, pullSent>>
capVars == <<capChannels, capBuf, capLock, cbPc, cbCount, cbData, cbOut, cbBase, capHist,
             micPc, snap>>
devVars == <<audio_capture_stream, show_devices_list, bufCap, devRate>>
mainVars == <<debug, playerVars, sinkVars, chanVars, renderVars, loudVars, histVars, preSeek,
              devVars, waveform_window>>
callVars == <<callee, callArgs, callRet>>
vars == <<mainVars, capVars, callVars>>

EmptyWin == [lo |-> 0, hi |-> 0, ok |-> TRUE]

\* [-50.; 300]
FloorHistory == [i \in 1..LufsLen |-> LufsFloor]


\* buf.fill(0.0)
ZeroBuf == [i \in 1..RingCap |-> 0]

\* The ring buffer full of zeros, the stream of a device with ch channels
\* built and no callback running.
CaptureIdle(ch) ==
    /\ capChannels = ch
    /\ capBuf = ZeroBuf /\ capLock = "free"
    /\ cbPc = "idle" /\ cbCount = 0 /\ cbData = <<>> /\ cbOut = <<>> /\ cbBase = 0
    /\ capHist = <<>>
    /\ micPc = "idle" /\ snap = ZeroBuf

\* Option<Instant> of a notice timer: None, and Some(Instant::now()) as
\* the time elapsed since the instant.
TimerNone == 0 - 1
TimerNow == 0
TimerSet(t) == t # TimerNone

\* No pure function has been called.
NoCall == callee = "none" /\ callArgs = <<>> /\ callRet = <<>>

BootAt(r, m, k) ==
    /\ debug \in BOOLEAN
    /\ ppc = "poll" /\ pendingErr = "" /\ pfile = "new" /\ ppos = 0
    /\ sound_count = 0 /\ srcFile = "new" /\ cursor = 0 /\ paused = FALSE
    /\ trackOff = 0 /\ trackCnt = 0 /\ audioPanicked = FALSE
    /\ cmdQ = <<>> /\ posQ = <<>> /\ fileQ = <<>> /\ errQ = <<>>
    /\ rpc = r /\ raf = "new"
    /\ is_file_selected = FALSE /\ is_playing_audio = FALSE
    /\ mode = m /\ playhead = 0 /\ show_explorer = FALSE
    /\ error_text = "" /\ error_timer = TimerNone
    /\ midWin = EmptyWin /\ sideWin = EmptyWin /\ lufsWin = EmptyWin
    /\ lufs = FloorHistory /\ meterCfg = <<2, DefaultRate>> /\ fedHi = 0
    /\ keys = k /\ pullSent = -1 /\ preSeek = 0
    /\ audio_capture_stream = "none" /\ show_devices_list = FALSE
    /\ bufCap = 30 * DefaultRate /\ devRate = DefaultRate
    /\ waveform_window = DefaultWindow

\* The state after construction, with a stereo input device.
Boot == BootAt("startup", "Player", 0) /\ CaptureIdle(2) /\ NoCall

\* The loudness queries of the meters as the program builds them never fail.
Init == Boot /\ faultsLeft = 0

\* The same program with a meter whose queries may fail.
FaultInit == Boot /\ faultsLeft = MaxMeterErrs

\* ------------------------------------------------- the audio callback
\* next() that tests the cursor after the increment instead of before.
AudioFileNextReportsAfter(pos, len) ==
    [some |-> pos < len,
     sent |-> IF (pos + 1) % BlockSize = 0 THEN <<pos + 1>> ELSE <<>>,
     pos  |-> (pos + 1) % UsizeMod]

\* Iterator::next for AudioFile: one call.  some: a sample was returned;
\* sent: the position message(s) sent by the call; pos: the cursor after it.
AudioFileNext(pos, len) ==
    [some |-> pos < len,
     sent |-> IF pos % BlockSize = 0 THEN <<pos>> ELSE <<>>,
     pos  |-> (pos + 1) % UsizeMod]

\* The calls of next() that follow a cursor which is neither a multiple of
\* BlockSize nor at the end only add one to the cursor each: QuietCalls is
\* how many of the next n calls are of that kind.
QuietCalls(pos, len, n) ==
    IF pos % BlockSize = 0 \/ pos >= len
    THEN 0
    ELSE Min(n, Min(len - pos, BlockSize - (pos % BlockSize)))

\* n successive calls of next(), stopping after the call that returns None
\* (the sink then drops the source).  sent accumulates the messages and
\* pulled the samples returned.  A stretch of quiet calls is taken at once.
RECURSIVE PullRun(_, _, _, _, _)
PullRun(pos, len, n, sent, pulled) ==
    IF n = 0
    THEN [pos |-> pos, sent |-> sent, ended |-> FALSE, pulled |-> pulled]
    ELSE IF QuietCalls(pos, len, n) > 0
    THEN PullRun(pos + QuietCalls(pos, len, n), len, n - QuietCalls(pos, len, n),
                 sent, pulled + QuietCalls(pos, len, n))
    ELSE IF AudioFileNext(pos, len).some
    THEN PullRun(AudioFileNext(pos, len).pos, len, n - 1,
                 sent \o AudioFileNext(pos, len).sent, pulled + 1)
    ELSE [pos |-> AudioFileNext(pos, len).pos,
          sent |-> sent \o AudioFileNext(pos, len).sent,
          ended |-> TRUE, pulled |-> pulled]

\* tui::run has returned or its thread has panicked: the App and with it
\* the receivers of the position, file and error channels are dropped.
RenderGone == rpc \in {"done", "oob_panic", "panicked", "failed"}

\* playback_position_tx.send(msg) for each msg of msgs: a send on a
\* channel whose receiver is dropped returns Err (ignored by every caller)
\* and queues nothing.
PosSend(msgs) == IF RenderGone THEN posQ ELSE posQ \o msgs

\* The channel is unbounded; the model holds at most MaxPosQueue messages.
PosRoom(n) == RenderGone \/ Len(posQ) + n <= MaxPosQueue

\* A MoveLeft / MoveRight has been sent by the render loop and not yet
\* served by the player.
SeekInFlight == cmdQ # <<>> /\ Head(cmdQ).cmd \in {"MoveLeft", "MoveRight"}

\* The output callback pulls n samples from the sink's source, unless the
\* sink is paused or empty.  A source that returned None is dropped.
AudioCallback(n) ==
    /\ sound_count = 1 /\ ~paused /\ ~audioPanicked
    /\ LET run == PullRun(cursor, SamplesLen(srcFile), n, <<>>, 0) IN
       /\ PosRoom(Len(run.sent))
       /\ posQ' = PosSend(run.sent)
       /\ preSeek' = (IF SeekInFlight THEN preSeek + Len(run.sent) ELSE preSeek)
       /\ IF run.ended
          THEN /\ sound_count' = 0 /\ srcFile' = "new" /\ cursor' = 0
               /\ trackOff' = 0 /\ trackCnt' = 0
               /\ pullSent' = -1
          ELSE /\ sound_count' = 1 /\ srcFile' = srcFile /\ cursor' = run.pos
               /\ trackOff' = trackOff /\ trackCnt' = trackCnt + run.pulled
               /\ pullSent' = (IF run.sent = <<>> THEN pullSent
                               ELSE run.sent[Len(run.sent)])
    /\ UNCHANGED <<capVars, devVars, waveform_window, callVars, debug, loudVars, playerVars, paused, audioPanicked, cmdQ, fileQ, errQ,
                   renderVars, keys>>

\* ------------------------------------------------ Source::try_seek
NextMultipleOf(n, c) == ((n + c - 1) \div c) * c

\* pos.as_secs_f32() * sample_rate * channels, cast to usize (the cast
\* saturates).  t is in ticks; rate and ticks per second are both
\* multiples of 100, which keeps the products small.
SeekSamples(t, f) ==
    LET x == (SampleRate(f) \div 100) * Channels(f)
        b == TicksPerSecond \div 100
    IN  Min((t \div TicksPerSecond) * x * 100 + ((t % TicksPerSecond) * x) \div b,
            UsizeMod - 1)

\* AudioFile::try_seek on a source of file f whose cursor is pos.
\* new_pos - curr_channel underflows when the rounded target is below the
\* channel slot: a panic with overflow checks, a wrap-around without.
AudioFileTrySeek(pos, f, t, dbg) ==
    LET curr_channel == pos % Channels(f)
        capped == Min(SeekSamples(t, f), SamplesLen(f))
        rounded == NextMultipleOf(capped, Channels(f))
    IN  [panic   |-> rounded < curr_channel /\ dbg,
         wrapped |-> rounded < curr_channel /\ ~dbg,
         pos     |-> (rounded - curr_channel) % UsizeMod]

\* Sink::get_pos: the TrackPosition of the source.
SinkGetPos ==
    trackOff + (trackCnt * TicksPerSecond) \div (SampleRate(srcFile) * Channels(srcFile))

\* Sink::try_seek(t) when the sink holds a source of file f with cursor
\* cur: the audio thread runs AudioFile::try_seek on it and answers.  The
\* order is not served when the audio thread is gone.
SinkTrySeek(f, cur, t) ==
    IF audioPanicked
    THEN /\ cursor' = cur /\ trackOff' = trackOff /\ trackCnt' = trackCnt
         /\ UNCHANGED <<posQ, audioPanicked, pullSent>>
    ELSE IF AudioFileTrySeek(cur, f, t, debug).panic
    THEN /\ audioPanicked' = TRUE
         /\ cursor' = cur /\ trackOff' = trackOff /\ trackCnt' = trackCnt
         /\ UNCHANGED <<posQ, pullSent>>
    ELSE /\ cursor' = AudioFileTrySeek(cur, f, t, debug).pos
         /\ trackOff' = t /\ trackCnt' = 0
         /\ posQ' = PosSend(<<AudioFileTrySeek(cur, f, t, debug).pos>>)
         /\ pullSent' = -1
         /\ UNCHANGED audioPanicked

\* ------------------------------------------------- the player loop
Cmd(c, path) == [cmd |-> c, path |-> path]

Polled(c) == ppc = "poll" /\ cmdQ # <<>> /\ Head(cmdQ).cmd = c

LoadError == "Error loading file"
TestError == "This is a test message"

\* The Err arm without its `continue`: control falls through to the code
\* that stops and clears the sink and appends the player's file again.
PlayerSelectFileErrFallsThrough ==
    /\ Polled("SelectFile") /\ ~DecodeOk(Head(cmdQ).path)
    /\ Len(errQ) < ChannelCap /\ Len(posQ) < MaxPosQueue
    /\ cmdQ' = Tail(cmdQ)
    /\ errQ' = Append(errQ, LoadError)
    /\ paused' = TRUE
    /\ ppos' = 0
    /\ sound_count' = 1 /\ srcFile' = pfile /\ cursor' = 0
    /\ trackOff' = 0 /\ trackCnt' = 0
    /\ posQ' = Append(posQ, 0)
    /\ pullSent' = -1
    /\ UNCHANGED <<capVars, devVars, waveform_window, callVars, debug, loudVars, preSeek, ppc, pendingErr, pfile, audioPanicked, fileQ, renderVars, keys>>

\* SelectFile, Err arm: report and continue.
PlayerSelectFileErr ==
    /\ Polled("SelectFile") /\ ~DecodeOk(Head(cmdQ).path)
    /\ cmdQ' = Tail(cmdQ)
    /\ IF Len(errQ) < ChannelCap
       THEN errQ' = Append(errQ, LoadError) /\ UNCHANGED <<ppc, pendingErr>>
       ELSE errQ' = errQ /\ ppc' = "send_err" /\ pendingErr' = LoadError
    /\ UNCHANGED <<capVars, devVars, waveform_window, callVars, debug, loudVars, preSeek, pfile, ppos, sinkVars, posQ, fileQ, renderVars, histVars>>

\* SelectFile, Ok arm, first part: the decoded file replaces the player's
\* file and is handed to the render loop; the sink still holds what it held.
PlayerSelectFileOk ==
    /\ Polled("SelectFile") /\ DecodeOk(Head(cmdQ).path)
    /\ Len(fileQ) < ChannelCap
    /\ cmdQ' = Tail(cmdQ)
    /\ pfile' = Head(cmdQ).path
    /\ ppos' = 0
    /\ fileQ' = Append(fileQ, Head(cmdQ).path)
    /\ ppc' = "attach"
    /\ UNCHANGED <<capVars, devVars, waveform_window, callVars, debug, loudVars, preSeek, pendingErr, sinkVars, posQ, errQ,
                   renderVars, histVars>>

\* The second part without the final playback_position_tx.send(0).
PlayerSelectFileAttachNoPosition ==
    /\ ppc = "attach"
    /\ paused' = TRUE
    /\ ppos' = 0
    /\ sound_count' = 1 /\ srcFile' = pfile /\ cursor' = 0
    /\ trackOff' = 0 /\ trackCnt' = 0
    /\ pullSent' = -1
    /\ ppc' = "poll"
    /\ UNCHANGED <<capVars, devVars, waveform_window, callVars, debug, loudVars, preSeek, pendingErr, pfile, audioPanicked, cmdQ, posQ,
                   fileQ, errQ, renderVars, keys>>

\* SelectFile, Ok arm, second part: stop and clear the sink (clear pauses
\* it), append the new source and send position 0.
PlayerSelectFileAttach ==
    /\ ppc = "attach"
    /\ PosRoom(1)
    /\ paused' = TRUE
    /\ ppos' = 0
    /\ sound_count' = 1 /\ srcFile' = pfile /\ cursor' = 0
    /\ trackOff' = 0 /\ trackCnt' = 0
    /\ posQ' = PosSend(<<0>>)
    /\ pullSent' = -1
    /\ ppc' = "poll"
    /\ UNCHANGED <<capVars, devVars, waveform_window, callVars, debug, loudVars, preSeek, pendingErr, pfile, audioPanicked, cmdQ,
                   fileQ, errQ, renderVars, keys>>

\* ChangeState that re-appends the file on every toggle, not only when the
\* sink is empty.
PlayerChangeStateAlwaysReappends ==
    /\ Polled("ChangeState")
    /\ cmdQ' = Tail(cmdQ)
    /\ paused' = ~paused
    /\ ppos' = 0
    /\ sound_count' = 1 /\ srcFile' = pfile /\ cursor' = 0
    /\ trackOff' = 0 /\ trackCnt' = 0
    /\ pullSent' = -1
    /\ UNCHANGED <<capVars, devVars, waveform_window, callVars, debug, loudVars, preSeek, ppc, pendingErr, pfile, audioPanicked, posQ, fileQ, errQ,
                   renderVars, keys>>

\* ChangeState: toggle the sink, and re-append the file when the sink is empty.
PlayerChangeState ==
    /\ Polled("ChangeState")
    /\ cmdQ' = Tail(cmdQ)
    /\ paused' = ~paused
    /\ IF sound_count = 0
       THEN /\ ppos' = 0
            /\ sound_count' = 1 /\ srcFile' = pfile /\ cursor' = 0
            /\ trackOff' = 0 /\ trackCnt' = 0
            /\ pullSent' = -1
       ELSE UNCHANGED <<ppos, sound_count, srcFile, cursor, trackOff, trackCnt, pullSent>>
    /\ UNCHANGED <<capVars, devVars, waveform_window, callVars, debug, loudVars, preSeek, ppc, pendingErr, pfile, audioPanicked, posQ, fileQ, errQ,
                   renderVars, keys>>

\* Quit: stop and clear the sink and return.
PlayerQuit ==
    /\ Polled("Quit")
    /\ cmdQ' = Tail(cmdQ)
    /\ sound_count' = 0 /\ srcFile' = "new" /\ cursor' = 0
    /\ trackOff' = 0 /\ trackCnt' = 0
    /\ pullSent' = -1
    /\ paused' = TRUE
    /\ ppos' = 0
    /\ ppc' = "done"
    /\ UNCHANGED <<capVars, devVars, waveform_window, callVars, debug, loudVars, preSeek, pendingErr, pfile, audioPanicked, posQ, fileQ, errQ,
                   renderVars, keys>>

\* MoveRight: nothing when the sink is empty, else seek 5 s further,
\* at most to the duration of the file.
PlayerMoveRight ==
    /\ Polled("MoveRight")
    /\ PosRoom(1)
    /\ cmdQ' = Tail(cmdQ)
    /\ IF sound_count = 0
       THEN UNCHANGED <<cursor, trackOff, trackCnt, posQ, audioPanicked, pullSent>>
       ELSE SinkTrySeek(srcFile, cursor, Min(SinkGetPos + SeekStep, DurationTicks(pfile)))
    /\ UNCHANGED <<capVars, devVars, waveform_window, callVars, debug, loudVars, preSeek, playerVars, sound_count, srcFile, paused, fileQ, errQ,
                   renderVars, keys>>

\* MoveLeft: with an empty sink, re-append the file and seek to 5 s before
\* its end (duration - 5 s panics when the file is shorter than 5 s);
\* else seek 5 s back, at least to 0.
PlayerMoveLeft ==
    /\ Polled("MoveLeft")
    /\ PosRoom(1)
    /\ cmdQ' = Tail(cmdQ)
    /\ IF sound_count = 0
       THEN IF DurationTicks(pfile) < SeekStep
            THEN /\ ppc' = "panicked"
                 /\ UNCHANGED <<sound_count, srcFile, cursor, trackOff, trackCnt,
                                posQ, audioPanicked, pullSent>>
            ELSE /\ sound_count' = 1 /\ srcFile' = pfile
                 /\ SinkTrySeek(pfile, ppos, DurationTicks(pfile) - SeekStep)
                 /\ UNCHANGED ppc
       ELSE /\ SinkTrySeek(srcFile, cursor, SatSub(SinkGetPos, SeekStep))
            /\ UNCHANGED <<ppc, sound_count, srcFile>>
    /\ UNCHANGED <<capVars, devVars, waveform_window, callVars, debug, loudVars, preSeek, pendingErr, pfile, ppos, paused, fileQ, errQ,
                   renderVars, keys>>

\* ShowTestError exists with debug_assertions only.  The result of the
\* send is unwrapped: the loop panics when the channel is disconnected.
PlayerShowTestError ==
    /\ Polled("ShowTestError")
    /\ cmdQ' = Tail(cmdQ)
    /\ IF RenderGone
       THEN errQ' = errQ /\ ppc' = "panicked" /\ UNCHANGED pendingErr
       ELSE IF Len(errQ) < ChannelCap
       THEN errQ' = Append(errQ, TestError) /\ UNCHANGED <<ppc, pendingErr>>
       ELSE errQ' = errQ /\ ppc' = "send_err" /\ pendingErr' = TestError
    /\ UNCHANGED <<capVars, devVars, waveform_window, callVars, debug, loudVars, preSeek, pfile, ppos, sinkVars, posQ, fileQ, renderVars, histVars>>

\* A blocked error_tx.send completes once the channel has room, or fails
\* once the receiver is dropped: the load error is then given up, the
\* unwrapped test error panics.
PlayerSendErr ==
    /\ ppc = "send_err"
    /\ IF RenderGone
       THEN /\ errQ' = errQ
            /\ ppc' = (IF pendingErr = TestError THEN "panicked" ELSE "poll")
       ELSE /\ Len(errQ) < ChannelCap
            /\ errQ' = Append(errQ, pendingErr)
            /\ ppc' = "poll"
    /\ pendingErr' = ""
    /\ UNCHANGED <<capVars, devVars, waveform_window, callVars, debug, loudVars, preSeek, pfile, ppos, sinkVars, cmdQ, posQ, fileQ, renderVars, histVars>>

\* ------------------------------------------------- the render loop
\* main() runs the player loop; when it returns or panics the process ends.
ProcessAlive == ppc \notin {"done", "panicked"}

\* &v[lo..hi] of a vector of length len: ok is FALSE when the slice panics.
Slice(len, lo, hi) == [lo |-> lo, hi |-> hi, ok |-> lo <= hi /\ hi <= len]

\* The window taken without the bounds check.
FftWindowUnchecked(pos, len) == Slice(len, SatSub(pos, FftLookback), pos)

\* The window cut down to the samples there are instead of dropped.
FftWindowClamped(pos, len) ==
    IF SatSub(pos, FftLookback) < len
    THEN Slice(len, SatSub(pos, FftLookback), Min(pos, len))
    ELSE EmptyWin

\* The mid (or side) window handed to get_fft for playhead pos, when
\* pos - 16384 is not 0: bounds are checked against the current length.
FftWindow(pos, len) ==
    IF pos <= len /\ SatSub(pos, FftLookback) < len
    THEN Slice(len, SatSub(pos, FftLookback), pos)
    ELSE EmptyWin

\* The interleaved span fed to the loudness meter for position pos (in
\* samples), when pos - 16384 is not 0; nothing is fed out of range.
LufsSpan(pos, len) ==
    IF pos <= len /\ SatSub(pos, FftLookback) < len
    THEN Slice(len, SatSub(pos, FftLookback), pos)
    ELSE EmptyWin

\* The number of samples of a window.
WinLen(w) == w.hi - w.lo

\* get_fft on a window of n samples: samples_fft_to_spectrum refuses fewer
\* than two samples (the empty window of a stale position, for one).
GetFftFails(n) == n < 2

\* The notice analyze_microphone_input raises for a failed FFT.
FftError == "Error getting frequencies"

\* analyze_audio_file_samples(p) on file f.
Analyze(p, f) ==
    [playhead |-> p \div Channels(f),
     fft  |-> SatSub(p \div Channels(f), FftLookback) # 0,
     mid  |-> FftWindow(p \div Channels(f), MidLen(f)),
     side |-> FftWindow(p \div Channels(f), MidLen(f)),
     feed |-> SatSub((p \div Channels(f)) * Channels(f), FftLookback) # 0,
     lufs |-> LufsSpan((p \div Channels(f)) * Channels(f), SamplesLen(f))]

AnalyzePanics(a) ==
    (a.fft /\ ~(a.mid.ok /\ a.side.ok)) \/ (a.feed /\ ~a.lufs.ok)

\* draw(): takes one pending error, if any, and starts its notice.
DrawErr ==
    IF errQ # <<>>
    THEN /\ error_text' = Head(errQ) /\ error_timer' = TimerNow /\ errQ' = Tail(errQ)
    ELSE UNCHANGED <<error_text, error_timer, errQ>>

\* reset_charts()
ResetCharts ==
    /\ midWin' = EmptyWin /\ sideWin' = EmptyWin /\ lufsWin' = EmptyWin
    /\ lufs' = FloorHistory
    /\ is_playing_audio' = FALSE
    /\ playhead' = 0

\* select_audio_file, up to the blocking recv.
SelectAudioFile(path) ==
    /\ Len(cmdQ) < ChannelCap
    /\ ResetCharts
    /\ show_explorer' = FALSE
    /\ cmdQ' = Append(cmdQ, Cmd("SelectFile", path))
    /\ rpc' = "recv_file"

\* Before the loop: the optional startup file, one of paths, is selected.
StartupWith(paths) ==
    /\ rpc = "startup" /\ ProcessAlive
    /\ \/ /\ rpc' = "loop"
          /\ UNCHANGED <<cmdQ, is_playing_audio, playhead, show_explorer,
                         midWin, sideWin, lufsWin, lufs>>
       \/ \E path \in paths : SelectAudioFile(path)
    /\ UNCHANGED <<capVars, devVars, waveform_window, callVars, debug, meterCfg, fedHi, faultsLeft, preSeek, playerVars, sinkVars, posQ, fileQ, errQ, raf,
                   is_file_selected, mode, error_text, error_timer, histVars>>

RenderStartup == StartupWith(Paths)

\* create_loudness_meter(channels, rate): a new meter for that pair.
CreateLoudnessMeter(channels, rate) == <<channels, rate>>

\* receive_audio_file: a file shorter than 15 s sets the window to its
\* duration.
FitWindow(window, duration) ==
    IF duration < MaxWindow THEN duration ELSE window

\* The blocking audio_file_rx.recv() of select_audio_file returns, then
\* receive_audio_file; the iteration ends with a draw.
RenderRecvFile ==
    /\ rpc = "recv_file" /\ ProcessAlive
    /\ fileQ # <<>>
    /\ raf' = Head(fileQ) /\ fileQ' = Tail(fileQ)
    /\ is_file_selected' = TRUE
    /\ waveform_window' = FitWindow(waveform_window, DurationMillis(Head(fileQ)))
    /\ meterCfg' = CreateLoudnessMeter(2, SampleRate(Head(fileQ)))
    /\ fedHi' = 0 /\ preSeek' = 0
    /\ rpc' = "draw"
    /\ UNCHANGED <<capVars, devVars, callVars, debug, lufs, faultsLeft, playerVars, sinkVars, cmdQ, posQ, errQ, is_playing_audio, mode,
                   playhead, show_explorer, error_text, error_timer,
                   midWin, sideWin, lufsWin, histVars>>

\* The draw that ends an iteration which set needs_render.
RenderDraw ==
    /\ rpc = "draw" /\ ProcessAlive
    /\ DrawErr
    /\ rpc' = "loop"
    /\ UNCHANGED <<capVars, devVars, waveform_window, callVars, debug, loudVars, preSeek, playerVars, sinkVars, cmdQ, posQ, fileQ, raf,
                   is_file_selected, is_playing_audio, mode, playhead, show_explorer,
                   midWin, sideWin, lufsWin, histVars>>

\* The shift loop left out.
ShiftLeftNone(h) == h

\* for i in 0..len - 1 { lufs[i] = lufs[i + 1] }: the tail keeps its value.
ShiftLeft(h) == [i \in 1..LufsLen |-> IF i < LufsLen THEN h[i + 1] ELSE h[i]]

WriteTail(h, v) == [h EXCEPT ![LufsLen] = v]

\* get_shortterm_lufs() of the file meter after a span ending at hi was
\* added: a number that tells the spans apart (never the floor, never 0).
ShortTerm(hi) == 0 - 1 - (hi \div BlockSize)

\* get_shortterm_lufs() of the device meter.
MicShortTerm == 0 - 30

ShortTermError == "Error getting short-term LUFS"

\* The tail of a tick: the value the query returned, or FailValue and an
\* error notice when it failed.
WriteShortTerm(h, v, ok) ==
    IF ok
    THEN /\ lufs' = WriteTail(h, v)
         /\ UNCHANGED <<faultsLeft, error_text, error_timer>>
    ELSE /\ faultsLeft > 0
         /\ lufs' = WriteTail(h, FailValue)
         /\ faultsLeft' = faultsLeft - 1
         /\ error_text' = ShortTermError /\ error_timer' = TimerNow

\* The loudness part of analyze_audio_file_samples, a being Analyze(p, f):
\* beyond the first 16384 samples the history is shifted; a span within the
\* file is added to the meter and the short-term value written at the tail.
LufsUpdate(a, ok) ==
    IF ~a.feed
    THEN ok /\ UNCHANGED <<lufs, fedHi, faultsLeft, error_text, error_timer>>
    ELSE IF a.lufs = EmptyWin
    THEN /\ ok
         /\ lufs' = ShiftLeft(lufs)
         /\ UNCHANGED <<fedHi, faultsLeft, error_text, error_timer>>
    ELSE /\ fedHi' = a.lufs.hi
         /\ WriteShortTerm(ShiftLeft(lufs), ShortTerm(a.lufs.hi), ok)

\* One position message is taken per iteration; it is analysed only with a
\* file selected and in Player mode.  The frame is redrawn when the
\* playhead moved, in Microphone mode, or while a notice is on screen.
RenderRecvPos ==
    /\ rpc = "loop" /\ ProcessAlive
    /\ posQ # <<>>
    /\ posQ' = Tail(posQ)
    /\ preSeek' = SatSub(preSeek, 1)
    /\ IF is_file_selected /\ mode = "Player"
       THEN /\ playhead' = Analyze(Head(posQ), raf).playhead
            /\ midWin' = (IF Analyze(Head(posQ), raf).fft
                          THEN Analyze(Head(posQ), raf).mid ELSE midWin)
            /\ sideWin' = (IF Analyze(Head(posQ), raf).fft
                           THEN Analyze(Head(posQ), raf).side ELSE sideWin)
            /\ lufsWin' = (IF Analyze(Head(posQ), raf).feed
                           THEN Analyze(Head(posQ), raf).lufs ELSE EmptyWin)
            /\ \E ok \in BOOLEAN : LufsUpdate(Analyze(Head(posQ), raf), ok)
            /\ rpc' = (IF AnalyzePanics(Analyze(Head(posQ), raf)) THEN "oob_panic"
                       ELSE IF Analyze(Head(posQ), raf).playhead # playhead \/ TimerSet(error_timer')
                       THEN "draw" ELSE "loop")
       ELSE /\ UNCHANGED <<playhead, midWin, sideWin, lufsWin, lufs, fedHi, faultsLeft,
                           error_text, error_timer>>
            /\ rpc' = (IF mode = "Microphone" \/ TimerSet(error_timer) THEN "draw" ELSE "loop")
    /\ UNCHANGED <<capVars, devVars, waveform_window, callVars, debug, playerVars, sinkVars, cmdQ, fileQ, errQ, raf, is_file_selected,
                   is_playing_audio, mode, show_explorer, meterCfg, histVars>>

\* &v[n - 2usize.pow(14)..n] of a vector of length len: the subtraction
\* overflows (a panic, or a start beyond the end in a build without overflow
\* checks) when n is below the lookback.
MicSlice(len, n) ==
    [lo |-> n - FftLookback, hi |-> n, ok |-> FftLookback <= n /\ n <= len]

\* The slices of analyze_microphone_input: 15 * sample_rate on the mid and
\* side halves of the first copy, 30 * sample_rate on the second copy.
MicMidSlice == MicSlice(bufCap \div 2, 15 * devRate)
MicLufsSlice == MicSlice(bufCap, 30 * devRate)

\* Microphone mode: every iteration runs analyze_microphone_input, which
\* slices the copies of the capture buffer, shifts the history and writes
\* the device meter's short-term value, and the frame is redrawn.  The
\* model records MaxMicTicks of them.
RenderMicTick ==
    /\ rpc = "loop" /\ ProcessAlive
    /\ mode = "Microphone"
    /\ lufs[LufsLen + 1 - MaxMicTicks] = LufsFloor
    /\ IF MicMidSlice.ok /\ MicLufsSlice.ok
       THEN /\ \E ok \in BOOLEAN : WriteShortTerm(ShiftLeft(lufs), MicShortTerm, ok)
            /\ rpc' = "draw"
       ELSE /\ rpc' = "oob_panic"
            /\ UNCHANGED <<lufs, faultsLeft, error_text, error_timer>>
    /\ UNCHANGED <<capVars, devVars, waveform_window, callVars, debug, playerVars, sinkVars, chanVars, raf, is_file_selected,
                   is_playing_audio, mode, playhead, show_explorer, midWin, sideWin,
                   lufsWin, meterCfg, fedHi, histVars, preSeek>>

\* An iteration without a position message or an event that still draws
\* (Microphone mode, or a notice on screen) takes a pending error.
RenderIdleDraw ==
    /\ rpc = "loop" /\ ProcessAlive
    /\ mode = "Microphone" \/ TimerSet(error_timer)
    /\ errQ # <<>>
    /\ DrawErr
    /\ UNCHANGED <<capVars, devVars, waveform_window, callVars, debug, loudVars, preSeek, playerVars, sinkVars, cmdQ, posQ, fileQ, rpc, raf,
                   is_file_selected, is_playing_audio, mode, playhead, show_explorer,
                   midWin, sideWin, lufsWin, histVars>>

\* 5 s after the notice was set the timer is cleared, and the frame redrawn.
ErrorTimerExpire ==
    /\ rpc = "loop" /\ ProcessAlive
    /\ TimerSet(error_timer)
    /\ error_timer' = TimerNone
    /\ rpc' = "draw"
    /\ UNCHANGED <<capVars, devVars, waveform_window, callVars, debug, loudVars, preSeek, playerVars, sinkVars, chanVars, raf, error_text,
                   is_file_selected, is_playing_audio, mode, playhead, show_explorer,
                   midWin, sideWin, lufsWin, histVars>>

\* A key event is read in the loop; handle_input is followed by a draw.
KeyEvent ==
    /\ rpc = "loop" /\ ProcessAlive
    /\ keys < MaxKeys
    /\ keys' = keys + 1

\* ' ': pause / play
KeySpace ==
    /\ KeyEvent
    /\ Len(cmdQ) < ChannelCap
    /\ cmdQ' = Append(cmdQ, Cmd("ChangeState", ""))
    /\ is_playing_audio' = ~is_playing_audio
    /\ IF ~is_playing_audio
       THEN lufs' = FloorHistory /\ fedHi' = 0 /\ preSeek' = 0
       ELSE UNCHANGED <<lufs, fedHi, preSeek>>
    /\ rpc' = "draw"
    /\ UNCHANGED <<capVars, devVars, waveform_window, callVars, debug, playerVars, sinkVars, posQ, fileQ, errQ, raf, is_file_selected,
                   mode, playhead, show_explorer, error_text, error_timer,
                   midWin, sideWin, lufsWin, meterCfg, faultsLeft, pullSent>>

SeekKeyAccepted == mode = "Player" /\ ~show_explorer

\* Left / Right without the reset of the history and of the meter.
KeyArrowNoReset(c) ==
    /\ KeyEvent
    /\ IF SeekKeyAccepted
       THEN /\ Len(cmdQ) < ChannelCap
            /\ preSeek' = Len(posQ)
            /\ cmdQ' = Append(cmdQ, Cmd(c, ""))
            /\ UNCHANGED <<lufs, fedHi>>
       ELSE UNCHANGED <<cmdQ, lufs, fedHi, preSeek>>
    /\ rpc' = "draw"
    /\ UNCHANGED <<capVars, devVars, waveform_window, callVars, debug, playerVars, sinkVars, posQ, fileQ, errQ, raf, is_file_selected,
                   is_playing_audio, mode, playhead, show_explorer, error_text,
                   error_timer, midWin, sideWin, lufsWin, meterCfg, faultsLeft, pullSent>>

\* Left / Right: accepted in Player mode with no popup open; the history
\* and the file meter are reset before the command is sent.
KeyArrow(c) ==
    /\ KeyEvent
    /\ IF SeekKeyAccepted
       THEN /\ Len(cmdQ) < ChannelCap
            /\ lufs' = FloorHistory /\ fedHi' = 0
            /\ preSeek' = Len(posQ)
            /\ cmdQ' = Append(cmdQ, Cmd(c, ""))
       ELSE UNCHANGED <<cmdQ, lufs, fedHi, preSeek>>
    /\ rpc' = "draw"
    /\ UNCHANGED <<capVars, devVars, waveform_window, callVars, debug, playerVars, sinkVars, posQ, fileQ, errQ, raf, is_file_selected,
                   is_playing_audio, mode, playhead, show_explorer, error_text,
                   error_timer, midWin, sideWin, lufsWin, meterCfg, faultsLeft, pullSent>>

KeyRight == KeyArrow("MoveRight")

KeyLeft == KeyArrow("MoveLeft")

\* 'e': toggle the explorer (Player mode)
KeyE ==
    /\ KeyEvent
    /\ show_explorer' = (IF mode = "Player" THEN ~show_explorer ELSE show_explorer)
    /\ rpc' = "draw"
    /\ UNCHANGED <<capVars, devVars, waveform_window, callVars, debug, loudVars, preSeek, playerVars, sinkVars, chanVars, raf, error_text, error_timer,
                   is_file_selected, is_playing_audio, mode, playhead, midWin, sideWin,
                   lufsWin, pullSent>>

\* Enter on a file of the explorer, one of paths: select_audio_file.
EnterWith(paths) ==
    /\ KeyEvent
    /\ show_explorer
    /\ \E path \in paths : SelectAudioFile(path)
    /\ UNCHANGED <<capVars, devVars, waveform_window, callVars, debug, meterCfg, fedHi, faultsLeft, preSeek, playerVars, sinkVars, posQ, fileQ, errQ, raf,
                   is_file_selected, mode, error_text, error_timer, pullSent>>

KeyEnter == EnterWith(Paths)

\* '+' / '=': zoom in by a second, down to 1 s.
KeyPlus ==
    /\ KeyEvent
    /\ waveform_window' = Max(waveform_window - ZoomStep, MinWindow)
    /\ rpc' = "draw"
    /\ UNCHANGED <<capVars, devVars, callVars, debug, loudVars, preSeek, playerVars, sinkVars,
                   chanVars, raf, error_text, error_timer, is_file_selected,
                   is_playing_audio, mode, playhead, show_explorer, midWin, sideWin,
                   lufsWin, pullSent>>

\* '-' / '_': zoom out by a second, up to 15 s or the duration of the
\* file, whichever is less.
KeyMinus ==
    /\ KeyEvent
    /\ LET bound == IF DurationMillis(raf) < MaxWindow THEN DurationMillis(raf)
                                                       ELSE MaxWindow
       IN  waveform_window' = Min(waveform_window + ZoomStep, bound)
    /\ rpc' = "draw"
    /\ UNCHANGED <<capVars, devVars, callVars, debug, loudVars, preSeek, playerVars, sinkVars,
                   chanVars, raf, error_text, error_timer, is_file_selected,
                   is_playing_audio, mode, playhead, show_explorer, midWin, sideWin,
                   lufsWin, pullSent>>

\* let _ = stream.pause() / stream.play() on the capture stream, if there
\* is one: the device may refuse, and the result is dropped.
SetStream(to) ==
    IF audio_capture_stream = "none"
    THEN audio_capture_stream' = audio_capture_stream
    ELSE \E ok \in BOOLEAN :
           audio_capture_stream' = (IF ok THEN to ELSE audio_capture_stream)

\* 'm': change mode, unless a popup is open; leaving Microphone resets the
\* charts and pauses the capture stream, entering it resumes the stream.
KeyM ==
    /\ KeyEvent
    /\ IF show_explorer \/ show_devices_list
       THEN UNCHANGED <<mode, midWin, sideWin, lufsWin, lufs, is_playing_audio, playhead,
                        audio_capture_stream>>
       ELSE IF mode = "Microphone"
            THEN ResetCharts /\ SetStream("paused") /\ mode' = "Player"
            ELSE /\ SetStream("running") /\ mode' = "Microphone"
                 /\ UNCHANGED <<midWin, sideWin, lufsWin, lufs, is_playing_audio, playhead>>
    /\ rpc' = "draw"
    /\ UNCHANGED <<capVars, show_devices_list, bufCap, devRate, waveform_window, callVars, debug, meterCfg, fedHi, faultsLeft, preSeek, playerVars, sinkVars, chanVars, raf, error_text, error_timer,
                   is_file_selected, show_explorer, pullSent>>

\* 'q': with a popup open close it, else send Quit and return.
KeyQ ==
    /\ KeyEvent
    /\ IF show_explorer
       THEN /\ show_explorer' = FALSE
            /\ rpc' = "draw"
            /\ UNCHANGED cmdQ
       ELSE /\ Len(cmdQ) < ChannelCap
            /\ cmdQ' = Append(cmdQ, Cmd("Quit", ""))
            /\ rpc' = "done"
            /\ UNCHANGED show_explorer
    /\ UNCHANGED <<capVars, devVars, waveform_window, callVars, debug, loudVars, preSeek, playerVars, sinkVars, posQ, fileQ, errQ, raf, is_file_selected,
                   is_playing_audio, mode, playhead, error_text, error_timer,
                   midWin, sideWin, lufsWin, pullSent>>

\* 'y' (debug builds): ask the player for a test error.
KeyY ==
    /\ KeyEvent
    /\ debug
    /\ Len(cmdQ) < ChannelCap
    /\ cmdQ' = Append(cmdQ, Cmd("ShowTestError", ""))
    /\ rpc' = "draw"
    /\ UNCHANGED <<capVars, devVars, waveform_window, callVars, debug, loudVars, preSeek, playerVars, sinkVars, posQ, fileQ, errQ, raf, is_file_selected,
                   is_playing_audio, mode, playhead, show_explorer, error_text,
                   error_timer, midWin, sideWin, lufsWin, pullSent>>

AudioStep == ProcessAlive /\ AudioCallback(MaxPull)

\* ------------------------------------------- capture stream (Microphone)
CapChannelSet == {1, 2, 3}

\* The k-th block of n interleaved samples delivered by the device: even
\* values, all different, so that the mean of two of them is exact.
Block(k, n) == [j \in 1..n |-> 2 * (10 * k + j)]

\* The iterator the callback hands to extend: the samples themselves for a
\* mono device, else the mean of each chunk of chunks_exact(2).
CaptureMap(is_mono, data) ==
    IF is_mono
    THEN data
    ELSE [i \in 1..(Len(data) \div 2) |-> (data[2 * i - 1] + data[2 * i]) \div 2]

\* A push that refuses the sample when the buffer is full.
RingPushDropNew(buf, x) ==
    IF Len(buf) < RingCap THEN Append(buf, x) ELSE buf

\* AllocRingBuffer::push: the oldest sample makes room when the buffer is full.
RingPush(buf, x) ==
    IF Len(buf) < RingCap THEN Append(buf, x) ELSE Append(Tail(buf), x)

\* The stream is playing: Microphone mode of a live process.
StreamPlaying == mode = "Microphone" /\ ProcessAlive

\* The callback is called with a block and takes the mutex.
CaptureCallbackLock ==
    /\ StreamPlaying
    /\ cbPc = "idle" /\ cbCount < MaxCallbacks
    /\ capLock = "free"
    /\ \E f \in 1..MaxFrames :
         /\ cbData' = Block(cbCount + 1, f * capChannels)
         /\ cbOut' = CaptureMap(capChannels = 1, Block(cbCount + 1, f * capChannels))
    /\ cbCount' = cbCount + 1
    /\ cbBase' = Len(capHist)
    /\ capLock' = "callback" /\ cbPc' = "extend"
    /\ UNCHANGED <<mainVars, callVars, capChannels, capBuf, capHist, micPc, snap>>

\* extend: one sample of the iterator is pushed.
CaptureCallbackPush ==
    /\ cbPc = "extend" /\ cbOut # <<>>
    /\ capBuf' = RingPush(capBuf, Head(cbOut))
    /\ capHist' = Append(capHist, Head(cbOut))
    /\ cbOut' = Tail(cbOut)
    /\ UNCHANGED <<mainVars, callVars, capChannels, capLock, cbPc, cbCount, cbData, cbBase, micPc, snap>>

\* The callback returns: the guard is dropped.
CaptureCallbackUnlock ==
    /\ cbPc = "extend" /\ cbOut = <<>>
    /\ capLock' = "free" /\ cbPc' = "idle"
    /\ UNCHANGED <<mainVars, callVars, capChannels, capBuf, cbCount, cbData, cbOut, cbBase, capHist,
                   micPc, snap>>

\* lock() that does not wait for the mutex.
MicLockNoWait(from, to) ==
    /\ micPc = from
    /\ capLock' = "render" /\ micPc' = to

\* latest_captured_samples.lock(): waits until the mutex is free.
MicLock(from, to) ==
    /\ micPc = from
    /\ capLock = "free"
    /\ capLock' = "render" /\ micPc' = to

\* .to_vec() and the end of the statement: the copy, then the guard dropped.
MicCopy(from, to) ==
    /\ micPc = from
    /\ snap' = capBuf
    /\ capLock' = "free" /\ micPc' = to

\* analyze_microphone_input is entered: the first lock().
MicLock1 ==
    /\ rpc = "loop" /\ StreamPlaying
    /\ lufs[LufsLen + 1 - MaxMicTicks] = LufsFloor
    /\ MicLock("idle", "copy1")
    /\ UNCHANGED <<mainVars, callVars, capChannels, capBuf, cbPc, cbCount, cbData, cbOut, cbBase,
                   capHist, snap>>

MicCopy1 ==
    /\ MicCopy("copy1", "analyze1")
    /\ UNCHANGED <<mainVars, callVars, capChannels, capBuf, cbPc, cbCount, cbData, cbOut, cbBase, capHist>>

\* FFT and waveform of the first copy are done: the second lock().
MicLock2 ==
    /\ MicLock("analyze1", "copy2")
    /\ UNCHANGED <<mainVars, callVars, capChannels, capBuf, cbPc, cbCount, cbData, cbOut, cbBase,
                   capHist, snap>>

MicCopy2 ==
    /\ MicCopy("copy2", "lufs")
    /\ UNCHANGED <<mainVars, callVars, capChannels, capBuf, cbPc, cbCount, cbData, cbOut, cbBase, capHist>>

\* The loudness part on the second copy; the iteration ends with a draw.
MicLufs ==
    /\ micPc = "lufs"
    /\ \E ok \in BOOLEAN : WriteShortTerm(ShiftLeft(lufs), MicShortTerm, ok)
    /\ micPc' = "idle"
    /\ rpc' = "draw"
    /\ UNCHANGED <<debug, playerVars, sinkVars, chanVars, raf, is_file_selected,
                   is_playing_audio, mode, playhead, show_explorer, midWin, sideWin,
                   lufsWin, meterCfg, fedHi, histVars, preSeek, devVars, waveform_window>>
    /\ UNCHANGED <<capChannels, capBuf, capLock, cbPc, cbCount, cbData, cbOut, cbBase,
                   capHist, snap, callVars>>

\* ------------------------------------------------ pure functions, called
\* Lengths are in half-milliseconds where the code divides a length in
\* milliseconds by two, so that every value stays an integer.
\*
\* The x axis of the waveform chart in Player mode: playhead_ms is the
\* playhead in whole milliseconds, window_ms is waveform_window * 1000 and
\* chart_len is audio_file_chart.len(), so that max_x = chart_len / 2 ms.
\* The result is <<min_bound, max_bound>> in half-milliseconds.
WaveformBoundsUnclamped(playhead_ms, window_ms, chart_len) ==
    <<Max(2 * playhead_ms - window_ms, 0),
      Max(2 * playhead_ms + window_ms, 2 * window_ms)>>

WaveformBounds(playhead_ms, window_ms, chart_len) ==
    <<Max(Min(2 * playhead_ms - window_ms, chart_len - 2 * window_ms), 0),
      Max(Min(2 * playhead_ms + window_ms, chart_len), 2 * window_ms)>>

\* Windows, chart lengths and playheads the axis is computed for.  The
\* window never exceeds the file: receive_audio_file cuts it to a shorter
\* file's duration and '-' stops at min(15 s, duration).
WindowSet == {1000, 4500, 15000}
ChartLenSet == {9000, 9001, 30000, 30001, 61000}
PlayheadSet == {0, 499, 500, 501, 2250, 2251, 4000, 4500, 7500, 7501, 15000, 15250,
                23000, 30500, 40000}

CallWaveformBounds ==
    /\ callee = "none"
    /\ \E ph \in PlayheadSet, w \in WindowSet, n \in ChartLenSet :
         /\ 2 * w <= n
         /\ callee' = "render_waveform"
         /\ callArgs' = <<ph, w, n>>
         /\ callRet' = WaveformBounds(ph, w, n)
    /\ UNCHANGED <<mainVars, capVars>>

WaveformPoints == 15 * 1000   \* (0..15 * 1000) zipped with the samples

\* Analyzer::get_waveform(samples, sample_rate) for len samples: step_by
\* panics on a step of 0; else the points are (i, samples[i * stride]) for
\* i < n.
GetWaveform(len, sample_rate) ==
    LET samples_in_one_ms == sample_rate \div 1000 IN
    IF samples_in_one_ms = 0
    THEN [panic |-> TRUE, n |-> 0, stride |-> 0]
    ELSE [panic |-> FALSE,
          n |-> Min(WaveformPoints,
                    (len + samples_in_one_ms - 1) \div samples_in_one_ms),
          stride |-> samples_in_one_ms]

\* The i-th point of a series of stride st: x and the index of its sample.
WaveformPoint(i, st) == <<i, i * st>>

RateSet == {500, 1000, 8000, 44100}
SampleCountSet == {0, 1, 7, 8, 9, 120000, 661500, 700000}

CallGetWaveform ==
    /\ callee = "none"
    /\ \E len \in SampleCountSet, rate \in RateSet :
         /\ callee' = "get_waveform"
         /\ callArgs' = <<len, rate>>
         /\ callRet' = GetWaveform(len, rate)
    /\ UNCHANGED <<mainVars, capVars>>

MinFreq == 20            \* 20_f64.log10()
MaxFreq == 20000         \* 20000_f64.log10()
ChartWidth == 100        \* chart_width

\* f64::log10 in thousandths, rounded down, of the frequencies drawn.
Log10Milli(freq) ==
    CASE freq = 10    -> 1000
      [] freq = 20    -> 1301
      [] freq = 50    -> 1698
      [] freq = 100   -> 2000
      [] freq = 200   -> 2301
      [] freq = 1000  -> 3000
      [] freq = 2000  -> 3301
      [] freq = 10000 -> 4000
      [] freq = 20000 -> 4301
      [] freq = 40000 -> 4602

\* A remap that is linear in the frequency.
ChartXLinear(freq) ==
    ((freq - MinFreq) * ChartWidth * 1000) \div (MaxFreq - MinFreq)

\* chart_x of one frequency, in thousandths:
\* (log_freq - min_freq_log) / log_range * chart_width.
ChartX(freq) ==
    LET min_freq_log == Log10Milli(MinFreq)
        log_range == Log10Milli(MaxFreq) - min_freq_log
    IN  ((Log10Milli(freq) - min_freq_log) * ChartWidth * 1000) \div log_range

\* Analyzer::transform_to_log_scale: iter().map(..).collect()
TransformToLogScale(fft_data) ==
    [i \in 1..Len(fft_data) |-> <<ChartX(fft_data[i][1]), fft_data[i][2]>>]

FreqSet == {10, 20, 50, 100, 200, 1000, 2000, 10000, 20000, 40000}
ValSet == {0 - 3, 0}
MaxPoints == 2           \* points in one call of transform_to_log_scale

FftPoints == FreqSet \X ValSet

CallTransformToLogScale ==
    /\ callee = "none"
    /\ \E n \in 0..MaxPoints : \E fft_data \in [1..n -> FftPoints] :
         /\ callee' = "transform_to_log_scale"
         /\ callArgs' = fft_data
         /\ callRet' = TransformToLogScale(fft_data)
    /\ UNCHANGED <<mainVars, capVars>>

Next ==
    \/ AudioStep
    \/ PlayerSelectFileErr
    \/ PlayerSelectFileOk
    \/ PlayerSelectFileAttach
    \/ PlayerChangeState
    \/ PlayerQuit
    \/ PlayerMoveRight
    \/ PlayerMoveLeft
    \/ PlayerShowTestError
    \/ PlayerSendErr
    \/ RenderStartup
    \/ RenderRecvFile
    \/ RenderDraw
    \/ RenderRecvPos
    \/ RenderMicTick
    \/ RenderIdleDraw
    \/ ErrorTimerExpire
    \/ KeySpace
    \/ KeyRight
    \/ KeyLeft
    \/ KeyE
    \/ KeyEnter
    \/ KeyM
    \/ KeyQ
    \/ KeyY

Spec == Init /\ [][Next]_vars

FaultSpec == FaultInit /\ [][Next]_vars

\* ------------------------------------- the render loop lost without a Quit
\* poll(Duration::from_micros(1))? : a terminal I/O error makes App::run
\* return Err; the thread ends, no Quit is sent, the App is dropped.
RenderPollFails ==
    /\ rpc = "loop" /\ ProcessAlive
    /\ rpc' = "failed"
    /\ UNCHANGED <<capVars, devVars, waveform_window, callVars, debug, loudVars, preSeek, playerVars, sinkVars, chanVars, raf,
                   is_file_selected, is_playing_audio, mode, playhead, show_explorer,
                   error_text, error_timer, midWin, sideWin, lufsWin, histVars>>

\* What player_command_rx.try_recv() returns: a queued command first, then
\* Err(Disconnected) when the sender is dropped, Err(Empty) otherwise.
TryRecv ==
    IF cmdQ # <<>> THEN "Ok" ELSE IF RenderGone THEN "Disconnected" ELSE "Empty"

\* `if let Ok(cmd) = player_command_rx.try_recv()` has no arm for Err: on
\* Disconnected, as on Empty, the loop sleeps 10 ms ...
PlayerRetry ==
    /\ ppc = "poll" /\ TryRecv = "Disconnected"
    /\ ppc' = "sleep"
    /\ UNCHANGED <<capVars, devVars, waveform_window, callVars, debug, loudVars, preSeek, pendingErr, pfile, ppos, sinkVars,
                   chanVars, renderVars, histVars>>

\* ... and polls again.
PlayerWake ==
    /\ ppc = "sleep"
    /\ ppc' = "poll"
    /\ UNCHANGED <<capVars, devVars, waveform_window, callVars, debug, loudVars, preSeek, pendingErr, pfile, ppos, sinkVars,
                   chanVars, renderVars, histVars>>

\* The steps of the player loop.
PlayerLoop ==
    \/ PlayerSelectFileErr
    \/ PlayerSelectFileOk
    \/ PlayerSelectFileAttach
    \/ PlayerChangeState
    \/ PlayerQuit
    \/ PlayerMoveRight
    \/ PlayerMoveLeft
    \/ PlayerShowTestError
    \/ PlayerSendErr
    \/ PlayerRetry
    \/ PlayerWake

LostNext ==
    \/ Next
    \/ RenderPollFails
    \/ PlayerRetry
    \/ PlayerWake

\* The player loop runs on the main thread and is scheduled again and
\* again: a step of it that stays possible is eventually taken.
LostSpec == Init /\ [][LostNext]_vars /\ WF_vars(PlayerLoop)

\* Microphone mode entered with 'm' and no file selected, the input device
\* having 1, 2 or 3 channels.
CaptureInit ==
    /\ BootAt("loop", "Microphone", 1)
    /\ faultsLeft = 0
    /\ \E ch \in CapChannelSet : CaptureIdle(ch)
    /\ NoCall

\* The capture callback against the render loop's Microphone iterations.
CaptureNext ==
    \/ CaptureCallbackLock
    \/ CaptureCallbackPush
    \/ CaptureCallbackUnlock
    \/ MicLock1
    \/ MicCopy1
    \/ MicLock2
    \/ MicCopy2
    \/ MicLufs
    \/ RenderDraw

CaptureSpec == CaptureInit /\ [][CaptureNext]_vars

\* ------------------------------------------------------ the input device
\* The input devices of the host, by the default input config of each.
DeviceSet ==
    {[rate |-> 8000, channels |-> 1],
     [rate |-> 44100, channels |-> 2],
     [rate |-> 48000, channels |-> 2]}

\* How far select_device gets:
\*   "bad_index"  the index is beyond the list
\*   "no_pause"   the stream in use refuses pause(): unwrap panics
\*   "no_stream"  build_input_stream fails
\*   "no_play"    the new stream refuses play()
\*   "no_meter"   create_loudness_meter fails
\*   "ok"         nothing fails
SelectOutcomes == {"bad_index", "no_pause", "no_stream", "no_play", "no_meter", "ok"}

SelectError == "Failed to select device"
MeterError == "Could not create an analyzer for an audio file"

\* handle_error(text)
HandleError(text) == error_text' = text /\ error_timer' = TimerNow

\* 'd': toggle the list of devices (Microphone mode).
KeyD ==
    /\ KeyEvent
    /\ show_devices_list' =
           (IF mode = "Microphone" THEN ~show_devices_list ELSE show_devices_list)
    /\ rpc' = "draw"
    /\ UNCHANGED <<capVars, audio_capture_stream, bufCap, devRate, waveform_window, callVars,
                   debug, loudVars,
                   preSeek, playerVars, sinkVars, chanVars, raf, error_text, error_timer,
                   is_file_selected, is_playing_audio, mode, playhead, show_explorer,
                   midWin, sideWin, lufsWin, pullSent>>

\* select_device(index) for device dev, as far as outcome o lets it go: the
\* stream in use is paused and dropped; the capture buffer is replaced by
\* one of 30 s at the device's rate, full of zeros; the stream is built,
\* stored and played; the list is closed; the device meter is created.
\* What a failed create_loudness_meter leaves as the analyzer's rate is
\* either value.  An Err is reported by the caller.
SelectDevice(dev, o) ==
    IF o = "bad_index"
    THEN /\ HandleError(SelectError)
         /\ rpc' = "draw"
         /\ UNCHANGED <<devVars, capChannels, capBuf, capHist>>
    ELSE IF o = "no_pause"
    THEN /\ audio_capture_stream # "none"
         /\ rpc' = "panicked"
         /\ UNCHANGED <<devVars, capChannels, capBuf, capHist, error_text, error_timer>>
    ELSE /\ bufCap' = 30 * dev.rate
         /\ capChannels' = dev.channels /\ capBuf' = ZeroBuf /\ capHist' = <<>>
         /\ rpc' = "draw"
         /\ audio_capture_stream' =
                (CASE o = "no_stream" -> "none"
                   [] o = "no_play"   -> "paused"
                   [] OTHER           -> "running")
         /\ show_devices_list' = (o \in {"no_stream", "no_play"})
         /\ IF o = "ok"
            THEN devRate' = dev.rate /\ UNCHANGED <<error_text, error_timer>>
            ELSE IF o = "no_meter"
            THEN devRate' \in {devRate, dev.rate} /\ HandleError(MeterError)
            ELSE devRate' = devRate /\ HandleError(SelectError)

\* A digit or Enter while the list of devices is shown: select_device.
KeyDevice ==
    /\ KeyEvent
    /\ show_devices_list
    /\ \E dev \in DeviceSet, o \in SelectOutcomes : SelectDevice(dev, o)
    /\ UNCHANGED <<capLock, cbPc, cbCount, cbData, cbOut, cbBase, micPc, snap, callVars,
                   waveform_window, debug, loudVars, preSeek, playerVars, sinkVars, chanVars, raf,
                   is_file_selected, is_playing_audio, mode, playhead, show_explorer,
                   midWin, sideWin, lufsWin, pullSent>>

\* Microphone mode entered with 'm', no file selected and no device chosen
\* yet; the keys are counted from here.
DeviceInit ==
    /\ BootAt("loop", "Microphone", 0) /\ CaptureIdle(2) /\ NoCall
    /\ faultsLeft = 0

\* The render loop with the keys of the input device.
DeviceNext ==
    \/ KeyD
    \/ KeyDevice
    \/ KeyM
    \/ RenderMicTick
    \/ RenderDraw
    \/ ErrorTimerExpire

DeviceSpec == DeviceInit /\ [][DeviceNext]_vars

\* ------------------------------------------------------------- the zoom
\* The render loop with the zoom keys and the loading of files, from a
\* directory that has a file shorter than a second; the player serves the
\* selections.
ZoomNext ==
    \/ StartupWith(ZoomPaths)
    \/ KeyE
    \/ EnterWith(ZoomPaths)
    \/ KeyPlus
    \/ KeyMinus
    \/ PlayerSelectFileOk
    \/ PlayerSelectFileAttach
    \/ RenderRecvFile
    \/ RenderRecvPos
    \/ RenderDraw

ZoomSpec == Init /\ [][ZoomNext]_vars

\* ------------------------------------------------ AudioFile::decode_file
\* What the format reader and the decoder do with the packets of a file,
\* one event per packet read:
\*   "pkt"       a packet of the selected track that decodes
\*   "other"     a packet of another track
\*   "corrupt"   a packet whose decode fails with Error::DecodeError
\*   "dec_fatal" a packet whose decode fails with any other error
\*   "io_fail"   next_packet fails with Error::IoError before the end
\*   "fmt_err"   next_packet fails with any other error
\* After the last event the stream has ended: next_packet returns
\* Error::IoError (unexpected end of file), which is how symphonia reports
\* the end of a stream.
EventSet == {"pkt", "other", "corrupt", "dec_fatal", "io_fail", "fmt_err"}
MaxPackets == 3
StreamSet == UNION {[1..n -> EventSet] : n \in 0..MaxPackets}
StreamChannelSet == {1, 2}
StreamRate == 8000

\* let mut sample_rate = 44100; let mut channels = Channels::empty();
DecodeDefaultRate == 44100
ChannelsEmptyCount == 0

DecodeOutcome(ok, samples, rate, channels) ==
    [ok |-> ok, samples |-> samples, sample_rate |-> rate, channels |-> channels]

\* The decode loop from packet i on.  samples: the packets whose samples
\* have been appended so far, in order; rate, channels: the current values
\* of the two locals; ch: the channel count of the track's audio buffers.
RECURSIVE DecodeLoop(_, _, _, _, _, _)
DecodeLoop(stream, i, samples, rate, channels, ch) ==
    IF i > Len(stream) \/ stream[i] = "io_fail"
    THEN DecodeOutcome(TRUE, samples, rate, channels)
    ELSE IF stream[i] \in {"fmt_err", "dec_fatal"}
    THEN DecodeOutcome(FALSE, <<>>, rate, channels)
    ELSE IF stream[i] = "pkt"
    THEN DecodeLoop(stream, i + 1, Append(samples, i),
                    IF samples = <<>> THEN StreamRate ELSE rate,
                    IF samples = <<>> THEN ch ELSE channels, ch)
    ELSE DecodeLoop(stream, i + 1, samples, rate, channels, ch)

\* decode_file on a file that opens and probes and has a decodable track.
DecodeFile(stream, ch) ==
    DecodeLoop(stream, 1, <<>>, DecodeDefaultRate, ChannelsEmptyCount, ch)

\* from_file: decode_file(path)?, then the AudioFile of what was decoded.
FromFile(stream, ch) == DecodeFile(stream, ch)

CallFromFile ==
    /\ callee = "none"
    /\ \E stream \in StreamSet, ch \in StreamChannelSet :
         /\ callee' = "from_file"
         /\ callArgs' = <<ch, stream>>
         /\ callRet' = FromFile(stream, ch)
    /\ UNCHANGED <<mainVars, capVars>>

\* ------------------------------------------- render_lufs: the integrated value
\* An f64 by its class: a finite value v, an infinity of sign v, or NaN.
Finite(v) == [class |-> "finite", v |-> v]
Infinity(sign) == [class |-> "inf", v |-> sign]
NaN == [class |-> "nan", v |-> 0]

\* f64::is_infinite: true for +inf and -inf, false for NaN and finite values.
IsInfinite(x) == x.class = "inf"

\* The values get_integrated_lufs can hand to render_lufs.
IntegratedSet ==
    {Finite(v) : v \in {0 - 70, LufsFloor, 0 - 23, 0, 3}}
        \cup {Infinity(0 - 1), Infinity(1), NaN}

\* render_lufs: if integrated_lufs.is_infinite() { -50.0 } else { integrated_lufs }
DisplayedIntegrated(integrated_lufs) ==
    IF IsInfinite(integrated_lufs) THEN Finite(LufsFloor) ELSE integrated_lufs

CallRenderLufs ==
    /\ callee = "none"
    /\ \E integrated_lufs \in IntegratedSet :
         /\ callee' = "render_lufs"
         /\ callArgs' = <<integrated_lufs>>
         /\ callRet' = <<DisplayedIntegrated(integrated_lufs)>>
    /\ UNCHANGED <<mainVars, capVars>>

\* ------------------------------------- render_waveform: the playhead marker
\* samples_in_one_ms = sample_rate / 1000, an integer division.
SamplesInOneMs(sample_rate) == sample_rate \div 1000

\* playhead_ms = (playhead / sample_rate * 1000.) as u64, pos being the
\* playhead: whole seconds and the rest apart, products staying small.
PlayheadMs(pos, sample_rate) ==
    (pos \div sample_rate) * 1000 + ((pos % sample_rate) * 1000) \div sample_rate

\* The marker and the x axis of one frame in Player mode.  playhead_x is
\* the quotient num / den of playhead as f64 / samples_in_one_ms as f64;
\* the bounds are those of WaveformBounds, in half-milliseconds.
RenderPlayhead(pos, sample_rate, window_ms, chart_len) ==
    LET b == WaveformBounds(PlayheadMs(pos, sample_rate), window_ms, chart_len)
    IN  [num |-> pos, den |-> SamplesInOneMs(sample_rate),
         min_bound |-> b[1], max_bound |-> b[2]]

\* Rates, playheads (in seconds of playback) and chart lengths (two points
\* per millisecond, for files of 15 s and of 5 min) the marker is drawn for.
MarkerRateSet == {8000, 44100, 48000}
MarkerSecsSet == {0, 1, 7, 15, 240, 300}
MarkerChartSet == {2 * 15 * 1000, 2 * 300 * 1000}

\* The playhead is a position of the file the chart was made of.
CallRenderPlayhead ==
    /\ callee = "none"
    /\ \E secs \in MarkerSecsSet, rate \in MarkerRateSet, w \in WindowSet,
          n \in MarkerChartSet :
         /\ 2 * w <= n
         /\ 2 * secs * 1000 <= n
         /\ callee' = "render_playhead"
         /\ callArgs' = <<secs * rate, rate, w, n>>
         /\ callRet' = RenderPlayhead(secs * rate, rate, w, n)
    /\ UNCHANGED <<mainVars, capVars>>

\* The pure functions of the render side, called on drawn arguments; they
\* keep no state, so a run makes one call.
PureNext ==
    \/ CallFromFile
    \/ CallRenderLufs
    \/ CallRenderPlayhead
    \/ CallWaveformBounds
    \/ CallGetWaveform
    \/ CallTransformToLogScale

PureSpec == Init /\ [][PureNext]_vars

\* ------------------------------------------------- the error notice timer
\* The notice code of the render loop with the clock made explicit: the
\* age of a timer, timer.elapsed().as_millis(), grows as time passes.
NoticeTimeout == 5000
MaxAge == 7503          \* the clock of a notice is followed up to this age
DtSet == {2499, 2500, 2501}
NoticeSet == {LoadError, "Error reading event"}

\* timer.elapsed().as_millis() > 5000
ExpiredStrict(age) == age > NoticeTimeout

\* timer.elapsed().as_millis() >= 5000
Expired(age) == age >= NoticeTimeout

NoticeFrame ==
    UNCHANGED <<capVars, devVars, waveform_window, debug, loudVars, preSeek, playerVars, sinkVars, cmdQ, posQ, fileQ, raf,
                is_file_selected, is_playing_audio, mode, playhead, show_explorer,
                midWin, sideWin, lufsWin, histVars>>

\* Time passes while a notice is up.
NoticeTimePasses ==
    /\ TimerSet(error_timer)
    /\ \E dt \in DtSet :
         /\ error_timer + dt <= MaxAge
         /\ error_timer' = error_timer + dt
    /\ UNCHANGED <<rpc, error_text, errQ, callVars>>
    /\ NoticeFrame

\* The head of a loop iteration: the expired timer is cleaned up.
NoticeTick ==
    /\ rpc = "loop"
    /\ error_timer' = (IF TimerSet(error_timer) /\ Expired(error_timer)
                       THEN TimerNone ELSE error_timer)
    /\ rpc' = "event"
    /\ callee' = "none" /\ callArgs' = <<>> /\ callRet' = <<>>
    /\ UNCHANGED <<error_text, errQ>>
    /\ NoticeFrame

\* handle_error(message), called when read() fails (the iteration is then
\* cut short by `continue`) or when handle_input returns an error.
NoticeHandleError ==
    /\ rpc = "event"
    /\ \E m \in NoticeSet :
         /\ error_text' = m
         /\ error_timer' = TimerNow
         /\ callee' = "handle_error" /\ callArgs' = <<m>> /\ callRet' = <<>>
    /\ rpc' \in {"loop", "draw"}
    /\ UNCHANGED errQ
    /\ NoticeFrame

\* An iteration without an error of its own; it draws or not.
NoticeNoError ==
    /\ rpc = "event"
    /\ rpc' \in {"loop", "draw"}
    /\ UNCHANGED <<error_text, error_timer, errQ, callVars>>
    /\ NoticeFrame

\* draw(): an error waiting on the error channel becomes the notice.
NoticeDraw ==
    /\ rpc = "draw"
    /\ DrawErr
    /\ rpc' = "loop"
    /\ UNCHANGED callVars
    /\ NoticeFrame

\* The player loop reports an error: error_tx.send(..).
NoticePlayerSends ==
    /\ Len(errQ) < ChannelCap
    /\ \E m \in {LoadError, TestError} : errQ' = Append(errQ, m)
    /\ UNCHANGED <<rpc, error_text, error_timer, callVars>>
    /\ NoticeFrame

NoticeInit ==
    /\ BootAt("loop", "Player", 0) /\ CaptureIdle(2) /\ NoCall
    /\ faultsLeft = 0

NoticeNext ==
    \/ NoticeTimePasses
    \/ NoticeTick
    \/ NoticeHandleError
    \/ NoticeNoError
    \/ NoticeDraw
    \/ NoticePlayerSends

NoticeSpec == NoticeInit /\ [][NoticeNext]_vars

\* ------------------------------------------------------- step predicates
\* The player loop takes command c off the command channel in this step.
Handled(c) == Polled(c) /\ cmdQ' = Tail(cmdQ)

\* The player loop finishes a successful SelectFile: the sink is cleared
\* and the new source appended.
SelectServed == ppc = "attach" /\ ppc' = "poll"

\* The step is a MoveRight / MoveLeft whose seek order reaches the source
\* (the source just re-appended, for MoveLeft on an empty sink).
SeekServed ==
    /\ Handled("MoveRight") \/ Handled("MoveLeft")
    /\ ~audioPanicked
    /\ sound_count' = 1
    /\ ppc' # "panicked"

\* The step is an audio callback: the only step that moves the cursor or
\* drops the source without taking a command.
PullStep == cmdQ' = cmdQ /\ ppc' = ppc /\ (cursor' # cursor \/ sound_count' # sound_count)

\* The messages the step appended to the position channel.
Pushed == SubSeq(posQ', Len(posQ) + 1, Len(posQ'))

\* The last cursor value with which next() was called in a pull step.
LastCallPos ==
    IF sound_count' = 1 THEN cursor' - 1 ELSE Max(SamplesLen(srcFile), cursor)

\* The errors handed to error_tx.send so far and not yet taken by draw().
ErrOut == errQ \o (IF ppc = "send_err" THEN <<pendingErr>> ELSE <<>>)

\* ------------------------------------------------------------ properties

\* C1: a seek leaves the cursor in the channel slot it was in: the cursor
\* after try_seek is congruent to the cursor before it modulo the channel
\* count, for every channel count.
C1_SeekKeepsChannelSlot ==
    [][SeekServed => cursor' % Channels(srcFile') = cursor % Channels(srcFile')]_vars

\* C2: try_seek completes with a cursor in 0 .. samples.len(); computing it
\* never goes below zero (no overflow panic, no wrap-around).
C2_SeekStaysInRange ==
    [][SeekServed => ~audioPanicked' /\ cursor' <= SamplesLen(srcFile')]_vars

\* C3: the player loop never aborts, whatever command it is given in
\* whatever state, MoveLeft on an empty sink after the end of a file
\* shorter than 5 s included.
C3_PlayerLoopNeverAborts == ppc # "panicked"

\* C4: a failed decode does not leave the render loop blocked: while it
\* waits in select_audio_file, either its SelectFile command is still
\* queued or the file is on the file-ready channel.
C4_RenderNotStuckAfterFailedDecode ==
    (rpc = "recv_file" /\ ProcessAlive) => (cmdQ # <<>> \/ fileQ # <<>>)

\* C5: when SelectFile names a file that does not decode, the player's
\* file, the sink (source, cursor, paused flag, track position) and the
\* position channel are left as they were, no file goes onto the file-ready
\* channel, and exactly one error is handed to the error channel; a blocked
\* send later delivers exactly that error (while the render loop holds the
\* receiver).
C5_DecodeFailurePreservesState ==
    [][ /\ (Handled("SelectFile") /\ ~DecodeOk(Head(cmdQ).path)) =>
             /\ UNCHANGED <<pfile, ppos, sinkVars, posQ, fileQ>>
             /\ ErrOut' = Append(ErrOut, LoadError)
        /\ (ppc = "send_err" /\ ppc' # "send_err" /\ ~RenderGone) =>
             /\ errQ' = Append(errQ, pendingErr)
             /\ UNCHANGED <<pfile, ppos, sinkVars, posQ, fileQ>>
      ]_vars

C5_Witness ==
    /\ errQ = <<LoadError>> /\ cmdQ = <<>> /\ fileQ = <<>> /\ rpc = "recv_file"
    /\ pfile = "long" /\ srcFile = "long" /\ sound_count = 1 /\ ~paused
    /\ cursor > 0

\* C6: after a successful SelectFile the player's file is the new file, the
\* sink holds exactly one source, of the new file, with cursor 0, the new
\* file went onto the empty file-ready channel exactly once, and one
\* position message 0 was sent (it is queued unless the render loop is
\* gone by then); the file-ready channel never holds more
\* than one file and the render loop is waiting for it.
C6_SelectFileInstallsNewFile ==
    [][ /\ (Handled("SelectFile") /\ DecodeOk(Head(cmdQ).path)) =>
             /\ pfile' = Head(cmdQ).path
             /\ ppos' = 0
             /\ fileQ = <<>> /\ fileQ' = <<Head(cmdQ).path>>
             /\ rpc = "recv_file"
             /\ ppc' = "attach"
        /\ SelectServed =>
             /\ pfile' = pfile
             /\ sound_count' = 1 /\ srcFile' = pfile /\ cursor' = 0
             /\ ppos' = 0
             /\ fileQ' = fileQ
             /\ ~RenderGone => Pushed = <<0>>
        /\ (fileQ' # fileQ /\ fileQ # <<>>) =>
             /\ fileQ' = <<>> /\ raf' = Head(fileQ) /\ is_file_selected'
      ]_vars

C6_Witness ==
    /\ fileQ = <<"mono">> /\ pfile = "mono" /\ srcFile = "mono"
    /\ sound_count = 1 /\ cursor = 0 /\ raf = "long"
    /\ Len(posQ) = 2 /\ posQ[1] > 0 /\ posQ[2] = 0

\* C7: an audio callback sends one position message for each multiple of
\* 4096 among the cursor values next() was called with, in order, each
\* once, and nothing else (the sends queue nothing once the receiver is
\* dropped); any other step that sends a position message is the player
\* serving a SelectFile, MoveRight or MoveLeft.
C7_ReportsEveryBlockOnce ==
    [][ /\ (PullStep /\ ~RenderGone) =>
             LET first == NextMultipleOf(cursor, BlockSize)
                 count == IF first > LastCallPos THEN 0
                          ELSE (LastCallPos - first) \div BlockSize + 1
             IN  /\ Len(Pushed) = count
                 /\ \A i \in 1..Len(Pushed) : Pushed[i] = first + (i - 1) * BlockSize
        /\ (~PullStep /\ Len(posQ') > Len(posQ)) =>
             SelectServed \/ Handled("MoveRight") \/ Handled("MoveLeft")
      ]_vars

C7_Witness ==
    /\ Len(posQ) = 2 /\ posQ[1] > 0 /\ posQ[1] % BlockSize = 0
    /\ posQ[2] = posQ[1] + BlockSize
    /\ sound_count = 1 /\ cursor > posQ[2] /\ cursor % BlockSize # 0

\* C8: every seek served by the source sends exactly one position message,
\* carrying the new cursor, in the same step, paused or not.
C8_SeekSendsNewCursor ==
    [][(SeekServed /\ ~RenderGone) => Pushed = <<cursor'>>]_vars

\* C9: while a source plays its cursor advances by exactly the number of
\* samples pulled; a cursor of a source in the sink is otherwise changed
\* only by a seek or a file selection, and a source enters an empty sink
\* only by a file selection or a re-append (ChangeState, MoveLeft); the
\* positions next() reports between two such events strictly increase.
C9_CursorAdvancesWithPulls ==
    [][ /\ (PullStep /\ sound_count' = 1) =>
             /\ cursor' > cursor
             /\ cursor' - cursor = trackCnt' - trackCnt
             /\ srcFile' = srcFile
        /\ (~PullStep /\ sound_count = 1 /\ sound_count' = 1 /\ cursor' # cursor) =>
             SelectServed \/ Handled("MoveRight") \/ Handled("MoveLeft")
        /\ (sound_count = 0 /\ sound_count' = 1) =>
             /\ SelectServed \/ Handled("ChangeState") \/ Handled("MoveLeft")
        /\ PullStep =>
             \A i \in 1..Len(Pushed) :
                 Pushed[i] > (IF i = 1 THEN pullSent ELSE Pushed[i - 1])
      ]_vars

C9_Witness ==
    /\ sound_count = 1 /\ ~paused /\ srcFile = "long"
    /\ pullSent >= 2 * BlockSize /\ cursor > pullSent
    /\ trackOff = 0 /\ trackCnt = cursor

\* C10: analyze_audio_file_samples never takes a slice out of bounds,
\* whatever position it is given: a position beyond the current file (one
\* reported for a longer file loaded before) yields empty windows.
C10_NoSliceOutOfBounds ==
    /\ rpc # "oob_panic"
    /\ midWin.ok /\ sideWin.ok /\ lufsWin.ok
    /\ midWin.hi <= MidLen(raf) /\ sideWin.hi <= MidLen(raf)
    /\ lufsWin.hi <= SamplesLen(raf)

C10_Witness ==
    /\ raf = "mono" /\ is_file_selected /\ rpc \in {"loop", "draw"}
    /\ playhead > FftLookback /\ playhead > SamplesLen(raf)
    /\ midWin = EmptyWin /\ sideWin = EmptyWin /\ lufsWin = EmptyWin

\* -------------------------------------------------- loudness and positions
\* The render loop takes a position message in this step.
PosTaken == posQ # <<>> /\ posQ' = Tail(posQ)

\* The step takes a position message and adds a span of the file to the meter.
FeedStep == PosTaken /\ is_file_selected /\ mode = "Player" /\ lufsWin' # EmptyWin

\* The render loop sends command c in this step.
Sent(c) == cmdQ' = Append(cmdQ, Cmd(c, ""))

\* C11: every position message the render loop takes is applied to the
\* playhead (playhead = position / channels of the current file), in either
\* mode and with or without a file selected; none is discarded.
C11_EveryPositionApplied ==
    [][PosTaken => playhead' = Head(posQ) \div Channels(raf)]_vars

\* C15: between two resets of the file meter the span fed on a position
\* update starts where the previous one ended: no sample index is fed twice
\* and none is skipped.
C15_FeedsOnlyNewSamples ==
    [][FeedStep => (fedHi = 0 \/ lufsWin'.lo = fedHi)]_vars

C17_NoPreSeekAudioAfterReset ==
    [][FeedStep => preSeek = 0]_vars

C19_MeterMatchesFile ==
    [][(fileQ # <<>> /\ fileQ' = Tail(fileQ)) =>
          meterCfg' = <<Channels(raf'), SampleRate(raf')>>]_vars

\* C20: a failed loudness query is not fatal: a notice is raised, the render
\* loop goes on, and the tail of the history keeps the last good value.
C20_FailedQueryKeepsLastValue ==
    [][faultsLeft' < faultsLeft =>
          /\ TimerSet(error_timer') /\ error_text' = ShortTermError
          /\ rpc' = "draw"
          /\ lufs'[LufsLen] = lufs[LufsLen]]_vars

\* ------------------------------------------------------- capture claims
\* The last RingCap samples of everything that went into the buffer, the
\* initial zeros included.
LastEnqueued ==
    SubSeq(ZeroBuf \o capHist, Len(capHist) + 1, Len(capHist) + RingCap)

\* The buffer is as a whole number of callbacks left it.
AtCallbackBoundary == cbPc = "idle" \/ Len(capHist) = cbBase \/ cbOut = <<>>

\* The render loop copies the buffer in this step.
Copied == micPc \in {"copy1", "copy2"} /\ micPc' # micPc

\* C12: the ring buffer always holds the RingCap most recent samples in
\* order, also after more than RingCap samples were enqueued; a snapshot is
\* that content; a sample offered by the callback is always accepted,
\* however full the buffer is.
C12_RingKeepsMostRecent ==
    [][ /\ capBuf' = SubSeq(ZeroBuf \o capHist', Len(capHist') + 1, Len(capHist') + RingCap)
        /\ Copied => snap' = LastEnqueued
        /\ (cbPc = "extend" /\ cbOut # <<>> /\ cbOut' # cbOut) =>
              capHist' = Append(capHist, Head(cbOut))
      ]_vars

C12_Witness ==
    /\ Len(capHist) > RingCap
    /\ micPc = "analyze1"
    /\ snap = LastEnqueued /\ snap[1] # 0

\* C13: a snapshot is the buffer as it was before or after the whole of a
\* callback's enqueue, never part of one, and the render loop does not hold
\* the buffer's lock while it analyses a snapshot.
C13_SnapshotsAreWholeBlocks ==
    [][ /\ Copied => (snap' = capBuf /\ AtCallbackBoundary)
        /\ micPc' \in {"idle", "analyze1", "lufs"} => capLock' # "render"
      ]_vars

C13_Witness ==
    /\ micPc = "analyze1" /\ capLock = "callback"
    /\ cbOut # <<>> /\ Len(capHist) > cbBase
    /\ snap[RingCap] # 0 /\ snap # capBuf

\* What the callback is to enqueue for a block from a device with ch
\* channels: the mean of each frame for 2 channels, the block otherwise.
ExpectedBlock(ch, data) ==
    IF ch = 2
    THEN [i \in 1..(Len(data) \div 2) |-> (data[2 * i - 1] + data[2 * i]) \div 2]
    ELSE data

\* C14: a callback of a 2-channel device enqueues one value (l + r) / 2 per
\* frame; with any other channel count (1, 3 or more) it enqueues the
\* samples of the block unchanged.
C14_DownmixOnlyForStereo ==
    [][(cbPc = "extend" /\ cbPc' = "idle") =>
          SubSeq(capHist, cbBase + 1, Len(capHist)) = ExpectedBlock(capChannels, cbData)]_vars

\* ---------------------------------------------------------- decoded file
\* Frames of a decoded file: interleaved samples / channels.
Frames(f) == SamplesLen(f) \div Channels(f)

\* C21: the file the player holds after a successful decode has one mid and
\* one side entry per frame, and a duration of frames / sample_rate.
C21_MidSideOnePerFrame ==
    pfile # "new" =>
        /\ SamplesLen(pfile) = Frames(pfile) * Channels(pfile)
        /\ MidLen(pfile) = Frames(pfile)
        /\ DurationMillis(pfile) = (Frames(pfile) * 1000) \div SampleRate(pfile)

\* ------------------------------------------------------- waveform window
\* The window the three scroll states prescribe, in half-milliseconds, for
\* a playhead ph, a window w and a total length tot.
ScrollWindow(ph, w, tot) ==
    IF 2 * ph <= w THEN <<0, w>>
    ELSE IF 2 * ph + w > 2 * tot THEN <<tot - w, tot>>
    ELSE <<ph - (w \div 2), ph + (w \div 2)>>

C23_WaveformOnePointPerMs ==
    callee = "get_waveform" =>
        LET len == callArgs[1]
            rate == callArgs[2]
        IN  /\ ~callRet.panic
            /\ callRet.stride = rate \div 1000
            /\ callRet.n = Min(15000, (len + callRet.stride - 1) \div callRet.stride)
            /\ len >= 15 * rate => callRet.n = 15000
            /\ \A i \in {0, 1, callRet.n - 1} :
                  i >= 0 => WaveformPoint(i, callRet.stride) = <<i, i * (rate \div 1000)>>

\* C24: transform_to_log_scale keeps the number of points, their order and
\* every value, and replaces each frequency by
\* (log10(freq) - log10(20)) / (log10(20000) - log10(20)) * 100: 20 Hz goes
\* to 0, 20000 Hz to 100, a frequency between them into [0, 100], and a
\* higher frequency never to a smaller x.
C24_LogScaleRemap ==
    callee = "transform_to_log_scale" =>
        /\ Len(callRet) = Len(callArgs)
        /\ \A i \in 1..Len(callArgs) :
             LET freq == callArgs[i][1]
                 x == callRet[i][1]
             IN  /\ callRet[i][2] = callArgs[i][2]
                 /\ x = ((Log10Milli(freq) - Log10Milli(20)) * 100 * 1000)
                            \div (Log10Milli(20000) - Log10Milli(20))
                 /\ freq = 20 => x = 0
                 /\ freq = 20000 => x = 100 * 1000
                 /\ (20 <= freq /\ freq <= 20000) => (0 <= x /\ x <= 100 * 1000)
        /\ \A i, j \in 1..Len(callArgs) :
             callArgs[i][1] <= callArgs[j][1] => callRet[i][1] <= callRet[j][1]

C24_Witness ==
    /\ callee = "transform_to_log_scale"
    /\ callArgs = <<<<20000, 0>>, <<20, 0 - 3>>>>
    /\ callRet = <<<<100 * 1000, 0>>, <<0, 0 - 3>>>>

\* ------------------------------------------------------- file selection
\* C28: the new file is handed to the render loop only after the previous
\* source has been stopped and cleared and the new one attached: once the
\* file-ready message is sent, the source of the previous file sends no
\* position message.
C28_NoOldPositionAfterFileReady ==
    [][(ppc = "attach" /\ srcFile # "new" /\ PullStep) => Pushed = <<>>]_vars


\* The render loop hands Quit to the command channel.
QuitSent == cmdQ' = Append(cmdQ, Cmd("Quit", ""))

\* The player loop ends, by returning or by a panic.
PlayerEnds == ppc \notin {"done", "panicked"} /\ ppc' \in {"done", "panicked"}

\* C25: 'q' with no popup open sends exactly one Quit and ends the render
\* loop (a Quit is sent by no other step, and the render loop returns by no
\* other step); with a popup open no Quit is sent; once the render loop has
\* returned, the player loop ends only by receiving that Quit, stopping and
\* clearing the sink and returning.
C25_QuitStopsPlayback ==
    [][ /\ QuitSent => (~show_explorer /\ rpc = "loop" /\ rpc' = "done")
        /\ (rpc # "done" /\ rpc' = "done") => (QuitSent /\ cmdQ = <<>>)
        /\ (rpc = "done" /\ PlayerEnds) =>
             /\ Handled("Quit")
             /\ sound_count' = 0 /\ cursor' = 0 /\ ppos' = 0
             /\ ppc' = "done"
      ]_vars


\* C26: once the render loop has gone without sending Quit, the player
\* loop does not poll forever: it eventually ends.
C26_PlayerEndsWhenRenderIsLost ==
    (rpc = "failed") ~> (ppc \in {"done", "panicked"})


\* ------------------------------------------------------- the error notice
\* C27: handle_error(m) makes m the notice text and starts its timer anew,
\* whatever notice was up; a notice is never cleared while less than 5 s
\* have elapsed since it was set, and the head of the first loop iteration
\* at or after 5 s clears the timer; a newer error restarts the 5 s.
C27_NoticeExpiresAfterFiveSeconds ==
    [][ /\ (callee = "none" /\ callee' = "handle_error") =>
             (error_text' = callArgs'[1] /\ error_timer' = 0)
        /\ (0 <= error_timer /\ error_timer < 5000) => error_timer' >= 0
        /\ (rpc = "loop" /\ rpc' # "loop" /\ error_timer >= 5000) =>
             error_timer' = -1
        /\ (errQ # <<>> /\ errQ' = Tail(errQ)) =>
             (error_text' = Head(errQ) /\ error_timer' = 0)
      ]_vars

\* A notice set by handle_error has been cleared by the head of a loop
\* iteration (its text stays), an error of the player waiting to be drawn.
C27_Witness ==
    /\ error_timer = -1 /\ error_text = "Error reading event"
    /\ callee = "none" /\ rpc = "event" /\ errQ = <<LoadError>>


\* ------------------------------------------------------------ end of track
\* C29: a ChangeState served while the sink is empty because the track has
\* ended re-appends the player's file with cursor 0 and leaves the sink
\* playing: playback restarts from position 0 on that command.
C29_PlayAfterEndRestarts ==
    [][(Handled("ChangeState") /\ sound_count = 0 /\ pfile # "new") =>
          /\ sound_count' = 1 /\ srcFile' = pfile /\ cursor' = 0 /\ ppos' = 0
          /\ ~paused'
      ]_vars


\* ------------------------------------------------------------ FFT windows
\* C30: on a position update with playhead pos (in frames) the mid and the
\* side window handed to the FFT are the same index range, and it is empty
\* or exactly the 16384 frames [pos - 16384, pos), within the file; up to
\* pos = 16384 no window is taken at all.
C30_FftWindowsAlignedAndFull ==
    [][(PosTaken /\ is_file_selected /\ mode = "Player") =>
          LET pos == Head(posQ) \div Channels(raf) IN
          /\ playhead' = pos
          /\ pos <= 16384 => (midWin' = midWin /\ sideWin' = sideWin)
          /\ pos > 16384 =>
               /\ midWin' = sideWin'
               /\ \/ midWin' = EmptyWin
                  \/ /\ midWin'.lo = pos - 16384 /\ midWin'.hi = pos
                     /\ midWin'.hi - midWin'.lo = 16384
                     /\ midWin'.hi <= MidLen(raf)
      ]_vars

\* A full window has been taken from the stereo file.
C30_Witness ==
    /\ raf = "long" /\ is_file_selected /\ playhead > 16384
    /\ midWin = sideWin
    /\ midWin.lo = playhead - 16384 /\ midWin.hi = playhead


\* ------------------------------------------------------------ FFT failures
\* C31: a position update of Player mode whose FFT fails on its window
\* (the position being one a source of a loaded file has reported) does not
\* end the render loop and surfaces a warning notice, as a failed FFT of
\* Microphone mode does.
C31_FftFailureRaisesNotice ==
    [][(/\ PosTaken /\ is_file_selected /\ mode = "Player"
        /\ Head(posQ) <= SamplesLen("long")
        /\ Head(posQ) \div Channels(raf) > 16384
        /\ GetFftFails(WinLen(midWin'))) =>
          /\ rpc' # "oob_panic"
          /\ error_timer' = 0 /\ error_text' = FftError
      ]_vars


\* ---------------------------------------------------------------- decoding
\* The packets of the stream, read or not, that decode: their indices.
RECURSIVE DecodablePackets(_, _)
DecodablePackets(stream, i) ==
    IF i > Len(stream) THEN <<>>
    ELSE IF stream[i] = "pkt" THEN <<i>> \o DecodablePackets(stream, i + 1)
    ELSE DecodablePackets(stream, i + 1)

\* The stream is cut by a failure of the reader or a fatal decoder error.
Failing(stream) ==
    \E i \in 1..Len(stream) : stream[i] \in {"io_fail", "fmt_err", "dec_fatal"}

\* C32: decoding succeeds exactly when the stream is read to its true end
\* with no container, I/O or fatal decoder failure on the way (packets that
\* fail to decode are skipped), and then yields the samples of all packets
\* of the track that decode, in order; a failure mid-decode yields no file.
C32_DecodeAllOrNothing ==
    callee = "from_file" =>
        /\ callRet.ok = ~Failing(callArgs[2])
        /\ callRet.ok => callRet.samples = DecodablePackets(callArgs[2], 1)

\* C36: every AudioFile that from_file returns has at least one channel.
C36_DeliveredFileHasChannels ==
    (callee = "from_file" /\ callRet.ok) => callRet.channels >= 1

\* C33: the integrated loudness shown is -50 whenever the value is not
\* finite (-inf, +inf or NaN), and the value itself whenever it is finite.
C33_NonFiniteShownAsFloor ==
    callee = "render_lufs" =>
        callRet[1] = (IF callArgs[1].class = "finite" THEN callArgs[1]
                                                      ELSE Finite(LufsFloor))

\* --------------------------------------------------------- the input device
\* C34: the capture buffer always holds 30 s at the rate the device
\* analyzer reports, and the slices of analyze_microphone_input are within
\* it: the render loop never dies on them.
C34_CaptureBufferMatchesRate ==
    /\ bufCap = 30 * devRate
    /\ MicMidSlice.ok /\ MicLufsSlice.ok
    /\ rpc # "oob_panic"

\* C38: a capture stream that exists is running exactly when the mode is
\* Microphone, and the list of devices, from which alone a device is
\* selected, is only open in Microphone mode.
C38_StreamRunsInMicrophoneOnly ==
    /\ audio_capture_stream # "none" =>
           (audio_capture_stream = "running" <=> mode = "Microphone")
    /\ show_devices_list => mode = "Microphone"

\* ------------------------------------------------------- the playing flag
\* C35: with a file selected and every command sent so far processed by the
\* player, is_playing_audio is true exactly when the sink is not paused.
C35_PlayingFlagTracksSink ==
    (is_file_selected /\ cmdQ = <<>> /\ ppc = "poll") =>
        (is_playing_audio <=> ~paused)

\* ------------------------------------------------------------- the zoom
\* C37: the waveform window stays within 1 s and 15 s and, once a file is
\* loaded, within that file's duration.
C37_WindowWithinBounds ==
    /\ MinWindow <= waveform_window /\ waveform_window <= MaxWindow
    /\ is_file_selected => waveform_window <= DurationMillis(raf)

\* ------------------------------------------------------ the playhead marker
\* C39: in Player mode the marker's x, playhead / (sample_rate / 1000),
\* lies within the bounds [x_min, x_max] of the x axis drawn for that
\* playhead, whatever the playhead, the file's length and its sample rate.
C39_PlayheadMarkerVisible ==
    callee = "render_playhead" =>
        /\ callRet.min_bound * callRet.den <= 2 * callRet.num
        /\ 2 * callRet.num <= callRet.max_bound * callRet.den

====
